---- MODULE Spec2Model ----
(***************************************************************************)
(* The resilient HTTP client of the AETHER frontend: the axios instance    *)
(* `api`, its request interceptor, its response interceptor with the       *)
(* token-refresh protocol (isRefreshing / pendingRequests), and the        *)
(* endpoints that go through it.                                           *)
(*                                                                         *)
(* Execution is a single-threaded event loop.  One action is one task of   *)
(* the loop together with the microtasks it schedules: a response handler  *)
(* runs up to its first await on a network call, a replay started with     *)
(* api(originalRequest) runs the request interceptor and hands the         *)
(* request to the transport before any other response is handled.          *)
(***************************************************************************)
EXTENDS Integers, Sequences, FiniteSets, TLC

\* ---------------------------------------------------------------- bounds
NReq == 2        \* number of request configs the callers create
Max401 == 3      \* number of 401 responses the backend gives in total
MaxLogin == 1    \* number of logins after start-up

NBurst == 3      \* number of request configs in a burst against one session

Req == 1..(IF NBurst > NReq THEN NBurst ELSE NReq)
Companies == {7}

\* ------------------------------------------------------------- constants
Absent == 0                      \* localStorage.getItem(...) === null / header not set
LogoutUrl == "/auth/logout"
DataUrls == {"/transactions"}
RefreshErrorStatuses == {400, 401}
ErrorStatuses == {400, 401, 422}     \* the error statuses the backend answers with
\* every status the error handler can be entered with
HttpErrorStatuses == 400..599
\* error.response.data.detail: absent, a string, or a list of field errors
NoDetail == [isList |-> FALSE, items |-> <<>>]
TextDetail == [isList |-> FALSE, items |-> <<"detail">>]
EmptyListDetail == [isList |-> TRUE, items |-> <<>>]
ListDetail ==
    [isList |-> TRUE,
     items |-> <<[loc |-> <<"body", "email">>, msg |-> "invalid"],
                 [loc |-> <<"body", "amount">>, msg |-> "required"]>>]
Details == {NoDetail, TextDetail, EmptyListDetail, ListDetail}

VARIABLES
    localStorage,      \* access_token, refresh_token, user, current_company_id
    isRefreshing,      \* module-level flag
    pendingRequests,   \* module-level queue of waiter callbacks
    defaultsAuth,      \* api.defaults.headers.common.Authorization
    config,            \* the request config objects (error.config / originalRequest)
    inflight,          \* requests handed to the transport, not yet answered
    refreshCalls,      \* axios.post('/api/v1/auth/refresh') calls not yet answered
    result,            \* what each caller's promise settled with
    toasts,            \* notifications raised by the last task
    redirected,        \* window.location.href was set to '/login'
    nextToken,         \* last credential generation the backend issued
    nextUUID,          \* crypto.randomUUID(): next fresh value
    n401,              \* 401 responses given so far
    nLogin,            \* logins so far
    refreshLog,        \* every renewal call issued so far
    first401,          \* the bearer token each request carried when it first got a 401
    traceLog           \* the X-Request-ID of every dispatch attempt, in dispatch order

vars == <<localStorage, isRefreshing, pendingRequests, defaultsAuth, config,
          inflight, refreshCalls, result, toasts, redirected, nextToken,
          nextUUID, n401, nLogin, refreshLog, first401, traceLog>>

\* ------------------------------------------------------------ data shapes
Pending == [kind |-> "pending", cfg |-> 0, status |-> 0, error |-> ""]

Resolved(m, status) ==
    [kind |-> "resolved", cfg |-> m.cfg, status |-> status, error |-> ""]

Rejected(m, status, error) ==
    [kind |-> "rejected", cfg |-> m.cfg, status |-> status, error |-> error]

NewConfig == [url |-> "", retry |-> FALSE, Authorization |-> Absent,
              XCompanyId |-> Absent, sent |-> 0]

EmptyStorage == [access_token |-> Absent, refresh_token |-> Absent,
                 user |-> Absent, current_company_id |-> Absent]

Session(tok, company) == [access_token |-> tok, refresh_token |-> tok,
                          user |-> 1, current_company_id |-> company]

StoreEmpty(ls) == /\ ls.access_token = Absent
                  /\ ls.refresh_token = Absent
                  /\ ls.current_company_id = Absent

\* -------------------------------------------------- request interceptor
\* The headers the request leaves with.  The config's own headers survive a
\* replay, the instance defaults fill what the config lacks, and the
\* interceptor overwrites a header only when the stored value is truthy.
AuthorizationHeader(cfg, ls, dflt) ==
    IF ls.access_token # Absent THEN ls.access_token
    ELSE IF cfg.Authorization # Absent THEN cfg.Authorization
    ELSE dflt

CompanyHeader(cfg, ls) ==
    IF ls.current_company_id # Absent THEN ls.current_company_id
    ELSE cfg.XCompanyId

\* Mutation: the trace id is generated once per config, not per attempt.
OutgoingTracePerConfig(r, c, cfg, ls, dflt, uuid) ==
    [cfg |-> r, caller |-> c, url |-> cfg.url,
     Authorization |-> AuthorizationHeader(cfg, ls, dflt),
     XCompanyId |-> CompanyHeader(cfg, ls),
     XRequestID |-> r]

\* api(cfg): the message handed to the transport for config r, whose outcome
\* settles caller c's promise.
Outgoing(r, c, cfg, ls, dflt, uuid) ==
    [cfg |-> r, caller |-> c, url |-> cfg.url,
     Authorization |-> AuthorizationHeader(cfg, ls, dflt),
     XCompanyId |-> CompanyHeader(cfg, ls),
     XRequestID |-> uuid]

\* The config object after the interceptor has run on it.
Intercepted(cfg, ls, dflt) ==
    [cfg EXCEPT !.Authorization = AuthorizationHeader(cfg, ls, dflt),
                !.XCompanyId = CompanyHeader(cfg, ls),
                !.sent = @ + 1]

\* ------------------------------------------------------------------ Init
Init ==
    /\ localStorage \in {EmptyStorage} \cup {Session(1, c) : c \in Companies}
    /\ isRefreshing = FALSE
    /\ pendingRequests = <<>>
    /\ defaultsAuth = Absent
    /\ config = [r \in Req |-> NewConfig]
    /\ inflight = {}
    /\ refreshCalls = {}
    /\ result = [r \in Req |-> Pending]
    /\ toasts = <<>>
    /\ redirected = FALSE
    /\ nextToken = 1
    /\ nextUUID = 1
    /\ n401 = 0
    /\ nLogin = 0
    /\ refreshLog = <<>>
    /\ first401 = [r \in Req |-> Absent]
    /\ traceLog = <<>>

\* ------------------------------------------------------- caller requests
\* A caller creates config r for `url` and calls api(config).
Request(r, url) ==
    /\ config[r].sent = 0
    /\ \A q \in Req : q < r => config[q].sent > 0      \* configs are numbered as created
    /\ LET cfg == [config[r] EXCEPT !.url = url] IN
        /\ inflight' = inflight \cup
               {Outgoing(r, r, cfg, localStorage, defaultsAuth, nextUUID)}
        /\ config' = [config EXCEPT ![r] = Intercepted(cfg, localStorage, defaultsAuth)]
    /\ traceLog' = Append(traceLog,
           Outgoing(r, r, config[r], localStorage, defaultsAuth, nextUUID).XRequestID)
    /\ nextUUID' = nextUUID + 1
    /\ toasts' = <<>>
    /\ UNCHANGED <<localStorage, isRefreshing, pendingRequests, defaultsAuth,
                   refreshCalls, result, redirected, nextToken, n401, nLogin,
                   refreshLog, first401>>

\* Any business endpoint (transactionsAPI, documentsAPI, ...).
Dispatch(r) == \E url \in DataUrls : Request(r, url)

\* authAPI.logout
logout(r) ==
    /\ \A q \in Req : config[q].url # LogoutUrl        \* the user logs out once
    /\ Request(r, LogoutUrl)

\* ------------------------------------------------------ notifications
Toast(level, msg) == [level |-> level, msg |-> msg]

Truthy(detail) == detail.isList \/ detail.items # <<>>

\* data.detail || fallback
DetailOr(detail, fallback) ==
    IF Truthy(detail) THEN Toast("error", "data.detail") ELSE Toast("error", fallback)

\* loc.join('.')
RECURSIVE Join(_)
Join(loc) ==
    IF loc = <<>> THEN ""
    ELSE IF Len(loc) = 1 THEN loc[1]
    ELSE loc[1] \o "." \o Join(Tail(loc))

\* `${err.loc?.join('.')}: ${err.msg}`
FieldMessage(err) == Join(err.loc) \o ": " \o err.msg

\* The switch over the status of an error response.
ErrorToasts(status, detail) ==
    CASE status = 400 -> <<DetailOr(detail, "Bad request")>>
      [] status = 403 -> <<Toast("error", "You do not have permission to perform this action")>>
      [] status = 404 -> <<Toast("error", "Resource not found")>>
      [] status = 422 ->
            IF Truthy(detail)
            THEN IF detail.isList
                 THEN [i \in 1..Len(detail.items) |->
                          Toast("error", FieldMessage(detail.items[i]))]
                 ELSE <<Toast("error", "data.detail")>>
            ELSE <<>>
      [] status = 429 -> <<Toast("error", "Too many requests. Please slow down.")>>
      [] status = 500 -> <<Toast("error", "Internal server error")>>
      [] status \in {502, 503, 504} -> <<Toast("error", "Service temporarily unavailable")>>
      [] OTHER -> <<DetailOr(detail, "An error occurred")>>

\* ------------------------------------------------- response interceptor
\* Mutation: the success handler also resets the refresh flag.
onFulfilledResetsFlag(m, hasMessage) ==
    /\ m \in inflight
    /\ inflight' = inflight \ {m}
    /\ toasts' = IF hasMessage THEN <<Toast("success", "data.message")>> ELSE <<>>
    /\ result' = [result EXCEPT ![m.caller] = Resolved(m, 200)]
    /\ isRefreshing' = FALSE
    /\ UNCHANGED <<localStorage, pendingRequests, defaultsAuth, config,
                   refreshCalls, redirected, nextToken, nextUUID, n401,
                   nLogin, refreshLog, first401,
                   traceLog>>

\* Success handler.
onFulfilled(m, hasMessage) ==
    /\ m \in inflight
    /\ inflight' = inflight \ {m}
    /\ toasts' = IF hasMessage THEN <<Toast("success", "data.message")>> ELSE <<>>
    /\ result' = [result EXCEPT ![m.caller] = Resolved(m, 200)]
    /\ UNCHANGED <<localStorage, isRefreshing, pendingRequests, defaultsAuth,
                   config, refreshCalls, redirected, nextToken, nextUUID, n401,
                   nLogin, refreshLog, first401,
                   traceLog>>

\* Mutation: a missing response is treated as the end of the session.
onNetworkErrorDropsSession(m) ==
    /\ m \in inflight
    /\ inflight' = inflight \ {m}
    /\ toasts' = <<Toast("error", "Session expired. Please login again.")>>
    /\ result' = [result EXCEPT ![m.caller] = Rejected(m, 0, "network")]
    /\ localStorage' = EmptyStorage
    /\ redirected' = TRUE
    /\ UNCHANGED <<isRefreshing, pendingRequests, defaultsAuth,
                   config, refreshCalls, nextToken, nextUUID, n401,
                   nLogin, refreshLog, first401, traceLog>>

\* Error handler, no response received (network error, timeout).
onNetworkError(m) ==
    /\ m \in inflight
    /\ inflight' = inflight \ {m}
    /\ toasts' = <<Toast("error", "Network error. Please check your connection.")>>
    /\ result' = [result EXCEPT ![m.caller] = Rejected(m, 0, "network")]
    /\ UNCHANGED <<localStorage, isRefreshing, pendingRequests, defaultsAuth,
                   config, refreshCalls, redirected, nextToken, nextUUID, n401,
                   nLogin, refreshLog, first401,
                   traceLog>>

\* Mutation: no response is ever routed to the renewal branch.
EntersRefreshNever(status, cfg) == FALSE

\* status === 401 && !originalRequest._retry
EntersRefresh(status, cfg) == status = 401 /\ ~cfg.retry

\* Mutation: every queued callback replays the driver's request instead of the
\* request of the handler that queued it.
WaiterReplaysDriver(m) ==
    [cfg |-> IF refreshCalls = {} THEN m.cfg
             ELSE (CHOOSE call \in refreshCalls : TRUE).cfg,
     caller |-> m.caller]

\* The callback pushed on pendingRequests: () => resolve(api(originalRequest))
Waiter(m) == [cfg |-> m.cfg, caller |-> m.caller]

\* Mutation: the handler does not look at isRefreshing.
MustWaitNever(refreshing) == FALSE

\* if (isRefreshing) { ... push ... }
MustWait(refreshing) == refreshing

\* Mutation: the refresh token is not checked before the renewal call.
HasRefreshTokenUnchecked(ls) == TRUE

\* const refreshToken = localStorage.getItem('refresh_token'); if (!refreshToken) throw
HasRefreshToken(ls) == ls.refresh_token # Absent

\* Mutation: the catch block forgets current_company_id.
ClearedStorageKeepsCompany(ls) ==
    [ls EXCEPT !.access_token = Absent, !.refresh_token = Absent,
               !.user = Absent]

\* The four removeItem calls of the catch block.
ClearedStorage(ls) ==
    [ls EXCEPT !.access_token = Absent, !.refresh_token = Absent,
               !.user = Absent, !.current_company_id = Absent]

\* The backend answers 401; the budget of 401 answers bounds the run.
Got401 == /\ n401 < Max401
          /\ n401' = n401 + 1

\* History: the token of the attempt on which a request first got a 401.
Seen401(m) ==
    IF first401[m.cfg] = Absent
    THEN [first401 EXCEPT ![m.cfg] = m.Authorization]
    ELSE first401

\* 401 while a renewal is in flight: the request waits in the queue.
onUnauthorizedWait(m) ==
    /\ m \in inflight
    /\ Got401
    /\ EntersRefresh(401, config[m.cfg])
    /\ MustWait(isRefreshing)
    /\ inflight' = inflight \ {m}
    /\ pendingRequests' = Append(pendingRequests, Waiter(m))
    /\ toasts' = <<>>
    /\ first401' = Seen401(m)
    /\ UNCHANGED <<localStorage, isRefreshing, defaultsAuth, config,
                   refreshCalls, result, redirected, nextToken, nextUUID,
                   nLogin, refreshLog,
                   traceLog>>

\* Mutation: the renewal call sends the token the failed request carried
\* instead of the stored refresh token.
RefreshBodyFromRequest(m, ls) == m.Authorization

\* { refresh_token: refreshToken }, read from localStorage when the driver starts.
RefreshBody(m, ls) == ls.refresh_token

\* 401 with no renewal in flight: this request becomes the driver and
\* issues the renewal call.
onUnauthorizedRefresh(m) ==
    /\ m \in inflight
    /\ Got401
    /\ EntersRefresh(401, config[m.cfg])
    /\ ~MustWait(isRefreshing)
    /\ HasRefreshToken(localStorage)
    /\ inflight' = inflight \ {m}
    /\ config' = [config EXCEPT ![m.cfg].retry = TRUE]
    /\ isRefreshing' = TRUE
    /\ refreshCalls' = refreshCalls \cup
           {[cfg |-> m.cfg, caller |-> m.caller,
             refresh_token |-> RefreshBody(m, localStorage)]}
    /\ refreshLog' = Append(refreshLog,
           [cfg |-> m.cfg, trigger |-> m.Authorization,
            refresh_token |-> RefreshBody(m, localStorage)])
    /\ toasts' = <<>>
    /\ first401' = Seen401(m)
    /\ UNCHANGED <<localStorage, pendingRequests, defaultsAuth, result,
                   redirected, nextToken, nextUUID, nLogin,
                   traceLog>>

\* Mutation: the flag is not reset when no refresh token is found.
onUnauthorizedNoTokenKeepsFlag(m) ==
    /\ m \in inflight
    /\ Got401
    /\ EntersRefresh(401, config[m.cfg])
    /\ ~MustWait(isRefreshing)
    /\ ~HasRefreshToken(localStorage)
    /\ inflight' = inflight \ {m}
    /\ config' = [config EXCEPT ![m.cfg].retry = TRUE]
    /\ localStorage' = ClearedStorage(localStorage)
    /\ redirected' = TRUE
    /\ toasts' = <<Toast("error", "Session expired. Please login again.")>>
    /\ result' = [result EXCEPT ![m.caller] = Rejected(m, 0, "No refresh token")]
    /\ isRefreshing' = TRUE
    /\ first401' = Seen401(m)
    /\ UNCHANGED <<pendingRequests, defaultsAuth, refreshCalls, nextToken,
                   nextUUID, nLogin, refreshLog,
                   traceLog>>

\* 401 with no renewal in flight and no refresh token stored: the throw is
\* caught at once, the catch and finally blocks run in the same task.
onUnauthorizedNoToken(m) ==
    /\ m \in inflight
    /\ Got401
    /\ EntersRefresh(401, config[m.cfg])
    /\ ~MustWait(isRefreshing)
    /\ ~HasRefreshToken(localStorage)
    /\ inflight' = inflight \ {m}
    /\ config' = [config EXCEPT ![m.cfg].retry = TRUE]
    /\ localStorage' = ClearedStorage(localStorage)
    /\ redirected' = TRUE
    /\ toasts' = <<Toast("error", "Session expired. Please login again.")>>
    /\ result' = [result EXCEPT ![m.caller] = Rejected(m, 0, "No refresh token")]
    /\ isRefreshing' = FALSE
    /\ first401' = Seen401(m)
    /\ UNCHANGED <<pendingRequests, defaultsAuth, refreshCalls, nextToken,
                   nextUUID, nLogin, refreshLog,
                   traceLog>>

\* Mutation: every error response tears the stored session down.
onErrorStatusDropsSession(m, status, detail) ==
    /\ m \in inflight
    /\ status \in HttpErrorStatuses
    /\ status = 401 => Got401
    /\ status # 401 => n401' = n401
    /\ ~EntersRefresh(status, config[m.cfg])
    /\ inflight' = inflight \ {m}
    /\ toasts' = ErrorToasts(status, detail)
    /\ result' = [result EXCEPT ![m.caller] = Rejected(m, status, "response")]
    /\ localStorage' = ClearedStorage(localStorage)
    /\ UNCHANGED <<isRefreshing, pendingRequests, defaultsAuth,
                   config, refreshCalls, redirected, nextToken, nextUUID,
                   nLogin, refreshLog, first401, traceLog>>

\* Every other error response, a 401 of an already retried request included.
onErrorStatus(m, status, detail) ==
    /\ m \in inflight
    /\ status \in HttpErrorStatuses
    /\ status = 401 => Got401
    /\ status # 401 => n401' = n401
    /\ ~EntersRefresh(status, config[m.cfg])
    /\ inflight' = inflight \ {m}
    /\ toasts' = ErrorToasts(status, detail)
    /\ result' = [result EXCEPT ![m.caller] = Rejected(m, status, "response")]
    /\ UNCHANGED <<localStorage, isRefreshing, pendingRequests, defaultsAuth,
                   config, refreshCalls, redirected, nextToken, nextUUID,
                   nLogin, refreshLog, first401,
                   traceLog>>

\* -------------------------------------------------------- renewal outcome
\* Mutation: only the access token of the renewal response is stored.
RenewedAccessOnly(ls, data) == [ls EXCEPT !.access_token = data.access_token]

\* localStorage after the two setItem calls on the renewal response.
Renewed(ls, data) ==
    [ls EXCEPT !.access_token = data.access_token,
               !.refresh_token = data.refresh_token]

\* Mutation: the driver's own request is re-dispatched before the queue.
ReplayOrderDriverFirst(queue, driver) == <<driver>> \o queue

\* Mutation: the queued callbacks are invoked twice.
ReplayOrderQueueTwice(queue, driver) == queue \o queue \o <<driver>>

\* The order in which the success path re-dispatches: the queued callbacks
\* (forEach), then the driver's own request.
ReplayOrder(queue, driver) == queue \o <<driver>>

\* How many times config r is re-dispatched by a replay sequence.
Replays(seq, r) == Cardinality({i \in DOMAIN seq : seq[i].cfg = r})

\* The renewal call returns 2xx with a new credential pair.
refreshSucceeds(call) ==
    /\ call \in refreshCalls
    /\ refreshCalls' = refreshCalls \ {call}
    /\ nextToken' = nextToken + 1
    /\ LET data == [access_token |-> nextToken + 1, refresh_token |-> nextToken + 1]
           ls == Renewed(localStorage, data)
           dflt == data.access_token
           cfgs == [config EXCEPT ![call.cfg].Authorization = data.access_token]
           order == ReplayOrder(pendingRequests, Waiter(call))
       IN
        /\ localStorage' = ls
        /\ defaultsAuth' = dflt
        /\ inflight' = inflight \cup
               {Outgoing(order[i].cfg, order[i].caller, cfgs[order[i].cfg],
                         ls, dflt, nextUUID + i - 1) : i \in DOMAIN order}
        /\ config' = [r \in Req |->
               IF Replays(order, r) = 0 THEN cfgs[r]
               ELSE [Intercepted(cfgs[r], ls, dflt) EXCEPT
                        !.sent = cfgs[r].sent + Replays(order, r)]]
        /\ traceLog' = traceLog \o
               [i \in DOMAIN order |->
                   Outgoing(order[i].cfg, order[i].caller, cfgs[order[i].cfg],
                            ls, dflt, nextUUID + i - 1).XRequestID]
        /\ nextUUID' = nextUUID + Len(order)
    /\ pendingRequests' = <<>>
    /\ isRefreshing' = FALSE
    /\ toasts' = <<>>
    /\ UNCHANGED <<result, redirected, n401, nLogin, refreshLog, first401>>

\* Mutation: the driver is rejected with its own 401 response.
RefreshRejectionOriginal401(call, status) == Rejected(call, 401, "response")

\* return Promise.reject(refreshError): the driver's caller gets the failure
\* of the renewal call.
RefreshRejection(call, status) ==
    Rejected(call, status, IF status = 0 THEN "refresh network" ELSE "refresh response")

\* Mutation: the renewal call is made through api, so a 401 answer to it
\* enters the 401 branch while isRefreshing is true and is queued.
refreshFailsThroughPipeline(call, status) ==
    /\ call \in refreshCalls
    /\ status \in RefreshErrorStatuses \cup {0}
    /\ refreshCalls' = refreshCalls \ {call}
    /\ IF status = 401
       THEN /\ pendingRequests' = Append(pendingRequests, Waiter(call))
            /\ UNCHANGED <<localStorage, redirected, result, isRefreshing>>
            /\ toasts' = <<>>
       ELSE /\ localStorage' = ClearedStorage(localStorage)
            /\ redirected' = TRUE
            /\ toasts' = <<Toast("error", "Session expired. Please login again.")>>
            /\ result' = [result EXCEPT ![call.caller] = RefreshRejection(call, status)]
            /\ isRefreshing' = FALSE
            /\ pendingRequests' = pendingRequests
    /\ UNCHANGED <<defaultsAuth, config, inflight, nextToken,
                   nextUUID, n401, nLogin, refreshLog, first401, traceLog>>

\* The renewal call fails: non-2xx (status # 0) or no response (status = 0).
refreshFails(call, status) ==
    /\ call \in refreshCalls
    /\ status \in RefreshErrorStatuses \cup {0}
    /\ refreshCalls' = refreshCalls \ {call}
    /\ localStorage' = ClearedStorage(localStorage)
    /\ redirected' = TRUE
    /\ toasts' = <<Toast("error", "Session expired. Please login again.")>>
    /\ result' = [result EXCEPT ![call.caller] = RefreshRejection(call, status)]
    /\ isRefreshing' = FALSE
    /\ UNCHANGED <<pendingRequests, defaultsAuth, config, inflight, nextToken,
                   nextUUID, n401, nLogin, refreshLog, first401, traceLog>>

\* ------------------------------------------------------------------ login
\* The login flow stores a fresh session.  It runs only while no renewal is
\* in flight.
Login(company) ==
    /\ nLogin < MaxLogin
    /\ ~isRefreshing
    /\ nLogin' = nLogin + 1
    /\ nextToken' = nextToken + 1
    /\ localStorage' = Session(nextToken + 1, company)
    /\ toasts' = <<>>
    /\ UNCHANGED <<isRefreshing, pendingRequests, defaultsAuth, config,
                   inflight, refreshCalls, result, redirected, nextUUID, n401,
                   refreshLog, first401,
                   traceLog>>

\* ------------------------------------------------------------------- Next
Next ==
    \/ \E r \in 1..NReq : Dispatch(r)
    \/ \E r \in 1..NReq : logout(r)
    \/ \E m \in inflight, hasMessage \in BOOLEAN : onFulfilled(m, hasMessage)
    \/ \E m \in inflight : onNetworkError(m)
    \/ \E m \in inflight : onUnauthorizedWait(m)
    \/ \E m \in inflight : onUnauthorizedRefresh(m)
    \/ \E m \in inflight : onUnauthorizedNoToken(m)
    \/ \E m \in inflight, status \in ErrorStatuses, detail \in Details :
           onErrorStatus(m, status, detail)
    \/ \E call \in refreshCalls : refreshSucceeds(call)
    \/ \E call \in refreshCalls, status \in RefreshErrorStatuses \cup {0} :
           refreshFails(call, status)
    \/ \E company \in Companies : Login(company)

Spec == Init /\ [][Next]_vars

\* ------------------------------------------------------------------ burst
\* A burst of business requests against one stored session: the backend
\* answers each attempt with 2xx or 401 and the refresh endpoint answers
\* with a new pair or with 400.
BurstInit ==
    /\ Init
    /\ localStorage \in {Session(1, c) : c \in Companies}

BurstNext ==
    \/ \E r \in 1..NBurst : Dispatch(r)
    \/ \E m \in inflight : onFulfilled(m, FALSE)
    \/ \E m \in inflight : onUnauthorizedWait(m)
    \/ \E m \in inflight : onUnauthorizedRefresh(m)
    \/ \E m \in inflight : onUnauthorizedNoToken(m)
    \/ \E m \in inflight : onErrorStatus(m, 401, NoDetail)
    \/ \E call \in refreshCalls : refreshSucceeds(call)
    \/ \E call \in refreshCalls : refreshFails(call, 400)

BurstSpec == BurstInit /\ [][BurstNext]_vars

\* ------------------------------------------------------------------ scope
OtherCompanies == {8}

\* The company selector of the UI rewrites or removes current_company_id;
\* once per stored session.
switchCompany(company) ==
    /\ localStorage.current_company_id \in Companies
    /\ company \in OtherCompanies \cup {Absent}
    /\ localStorage' = [localStorage EXCEPT !.current_company_id = company]
    /\ toasts' = <<>>
    /\ UNCHANGED <<isRefreshing, pendingRequests, defaultsAuth, config,
                   inflight, refreshCalls, result, redirected, nextToken,
                   nextUUID, n401, nLogin, refreshLog, first401, traceLog>>

\* A burst during which the user may switch the active company.
ScopeNext ==
    \/ BurstNext
    \/ \E company \in OtherCompanies \cup {Absent} : switchCompany(company)

ScopeSpec == BurstInit /\ [][ScopeNext]_vars

\* ================================================================ claims

\* Renewal calls issued for a 401 of a request that carried access token t.
RenewalsFor(t) == {i \in DOMAIN refreshLog : refreshLog[i].trigger = t}

\* Requests whose first 401 came back for access token t.
ExpiredWith(t) == {r \in Req : first401[r] = t}

\* C1: single-flight - when two or more requests dispatched with the same
\* expired access token have each received their 401, exactly one renewal
\* call has been issued for that token in total, whatever the interleaving of
\* the 401 arrivals with the renewal call and its completion.
C1_SingleFlight ==
    \A t \in 1..nextToken :
        Cardinality(ExpiredWith(t)) >= 2 => Cardinality(RenewalsFor(t)) = 1

\* The error handler runs for a 401 answer to message m in this step.
Handled401(m) ==
    \/ onUnauthorizedWait(m)
    \/ onUnauthorizedRefresh(m)
    \/ onUnauthorizedNoToken(m)
    \/ \E detail \in Details : onErrorStatus(m, 401, detail)

\* The step appends m's continuation to the queue and issues no renewal call.
JoinsQueue(m) ==
    /\ pendingRequests' = Append(pendingRequests, [cfg |-> m.cfg, caller |-> m.caller])
    /\ refreshCalls' = refreshCalls
    /\ refreshLog' = refreshLog

\* isRefreshing is true exactly while one renewal call is outstanding.
OneRenewalAtMost ==
    /\ Cardinality(refreshCalls) <= 1
    /\ isRefreshing <=> refreshCalls # {}

\* C2 (as stated): at most one renewal call is in flight at any time, and
\* every request whose 401 is handled while isRefreshing is true issues no
\* renewal call and is appended to pendingRequests.
C2_AnyRequestJoinsQueue ==
    [][/\ OneRenewalAtMost'
       /\ \A m \in inflight : (isRefreshing /\ Handled401(m)) => JoinsQueue(m)]_vars

\* C2 (amended): at most one renewal call is in flight at any time, and every
\* not yet retried request whose 401 is handled while isRefreshing is true
\* issues no renewal call and is appended to pendingRequests; an already
\* retried request is rejected instead, again without a renewal call.
C2_OneRenewalInFlight ==
    [][/\ OneRenewalAtMost'
       /\ \A m \in inflight : (isRefreshing /\ Handled401(m)) =>
            /\ refreshCalls' = refreshCalls
            /\ refreshLog' = refreshLog
            /\ IF config[m.cfg].retry
               THEN /\ pendingRequests' = pendingRequests
                    /\ result'[m.caller].kind = "rejected"
               ELSE JoinsQueue(m)]_vars

\* A second request has joined the queue behind an outstanding renewal.
C2_Witness ==
    /\ isRefreshing
    /\ refreshCalls # {}
    /\ pendingRequests # <<>>

\* The renewal call `call` fails in this step.
RenewalCallFails(call) ==
    \E status \in RefreshErrorStatuses \cup {0} : refreshFails(call, status)

\* C3: failure fan-out - when a renewal call fails, every request queued in
\* pendingRequests during that renewal is rejected to its caller with the
\* same failure as the driver.
C3_FailureFanOut ==
    [][\A call \in refreshCalls : RenewalCallFails(call) =>
          \A i \in DOMAIN pendingRequests :
             LET waiter == result'[pendingRequests[i].caller]
                 driver == result'[call.caller]
             IN /\ waiter.kind = "rejected"
                /\ waiter.error = driver.error
                /\ waiter.status = driver.status]_vars

\* ------------------------------------------------------------- fairness
\* Every ordinary dispatch of request r is eventually answered.
Answered(r) ==
    \E m \in inflight :
        /\ m.cfg = r
        /\ \/ \E hasMessage \in BOOLEAN : onFulfilled(m, hasMessage)
           \/ onNetworkError(m)
           \/ onUnauthorizedWait(m)
           \/ onUnauthorizedRefresh(m)
           \/ onUnauthorizedNoToken(m)
           \/ \E status \in ErrorStatuses, detail \in Details :
                  onErrorStatus(m, status, detail)

\* Every renewal call is eventually answered.
RenewalAnswered ==
    \E call \in refreshCalls : refreshSucceeds(call) \/ RenewalCallFails(call)

FairSpec ==
    /\ Spec
    /\ \A r \in Req : WF_vars(Answered(r))
    /\ WF_vars(RenewalAnswered)

\* Request r is suspended in the coordinator: queued, or driving a renewal.
Suspended(r) ==
    \/ \E i \in DOMAIN pendingRequests : pendingRequests[i].caller = r
    \/ \E call \in refreshCalls : call.caller = r

Settled(r) == result[r].kind # "pending"

\* C4: liveness - when every dispatch and every renewal call is eventually
\* answered, every request suspended on a renewal (driver or waiter)
\* eventually settles to its caller.
C4_EveryWaiterSettles ==
    \A r \in Req : Suspended(r) ~> Settled(r)

\* C5: replay correctness - a successful renewal re-dispatches the driver
\* and every queued waiter, each once, each for its own caller and with the
\* access token that renewal returned; and whatever a caller's promise
\* settles with is the outcome of its own request.
C5_ReplayCorrectness ==
    [][/\ \A call \in refreshCalls : refreshSucceeds(call) =>
            LET replayed == inflight' \ inflight
                waiting == {call.caller} \cup
                    {pendingRequests[i].caller : i \in DOMAIN pendingRequests}
            IN /\ Cardinality(replayed) = Len(pendingRequests) + 1
               /\ {m.caller : m \in replayed} = waiting
               /\ \A m \in replayed :
                     /\ m.cfg = m.caller
                     /\ m.Authorization = nextToken'
                     /\ m.Authorization = localStorage'.access_token
       /\ \A r \in Req : result'[r].kind # "pending" => result'[r].cfg = r]_vars

\* A queued waiter was replayed after the renewal and its caller got the answer.
C5_Witness ==
    \E r \in Req : /\ result[r].kind = "resolved"
                   /\ config[r].sent = 2
                   /\ ~config[r].retry
                   /\ config[r].Authorization = first401[r] + 1

\* C6: no double retry - no request is dispatched more than twice, and a
\* request that has been replayed is never queued again and never drives
\* another renewal.
C6_NoDoubleRetry ==
    \A r \in Req :
        /\ config[r].sent <= 2
        /\ Suspended(r) => config[r].sent = 1

\* A renewal fails in this step: the call fails, or no refresh token is stored.
RenewalFails ==
    \/ \E call \in refreshCalls : RenewalCallFails(call)
    \/ \E m \in inflight : onUnauthorizedNoToken(m)

\* C7: after any failed renewal access_token, refresh_token and
\* current_company_id are all absent, and an empty store stays empty until a
\* login writes it.
C7_StoreEmptyAfterFailedRenewal ==
    [][/\ RenewalFails => StoreEmpty(localStorage')
       /\ (StoreEmpty(localStorage) /\ ~StoreEmpty(localStorage')) =>
              \E company \in Companies : Login(company)]_vars

\* A renewal call failed and left the store empty.
C7_Witness ==
    /\ StoreEmpty(localStorage)
    /\ \E r \in Req : result[r].error = "refresh response"

SessionExpiredToast == <<Toast("error", "Session expired. Please login again.")>>

\* C8: a 401 answer to an already retried request tears the session down as
\* a failed renewal does: the store is cleared, the redirect to /login is
\* made and the session-expired notification is raised.
C8_RetriedExpiryEscalates ==
    [][\A m \in inflight : (config[m.cfg].retry /\ Handled401(m)) =>
          /\ StoreEmpty(localStorage')
          /\ redirected'
          /\ toasts' = SessionExpiredToast]_vars

\* C9: while no refresh token is stored no renewal call is issued, and every
\* request whose 401 is handled then is rejected in that same step.
C9_NoRenewalWhenUnauthenticated ==
    [][localStorage.refresh_token = Absent =>
          /\ refreshLog' = refreshLog
          /\ refreshCalls' = {}
          /\ \A m \in inflight : Handled401(m) =>
                result'[m.caller].kind = "rejected"]_vars

\* A 401 arrived with no refresh token stored and was rejected at once.
C9_Witness ==
    /\ localStorage.refresh_token = Absent
    /\ \E r \in Req : result[r].error = "No refresh token"

\* C10: logout cancellation - a logout triggered while a renewal is in
\* flight rejects every queued waiter with a SessionTerminated reason and
\* clears the store, and a renewal answer arriving after a logout neither
\* repopulates the store nor replays a waiter.
C10_LogoutCancellation ==
    [][/\ \A r \in Req : (isRefreshing /\ logout(r)) =>
            /\ StoreEmpty(localStorage')
            /\ pendingRequests' = <<>>
            /\ \A i \in DOMAIN pendingRequests :
                  LET waiter == result'[pendingRequests[i].caller]
                  IN waiter.kind = "rejected" /\ waiter.error = "SessionTerminated"
       /\ \A call \in refreshCalls :
            ((\E q \in Req : config[q].url = LogoutUrl) /\ refreshSucceeds(call)) =>
                /\ localStorage' = localStorage
                /\ inflight' = inflight]_vars

\* C11: credential pair atomicity - in every state the stored access token
\* and refresh token are both absent or both of the same login or renewal
\* response (the same credential generation).
C11_PairAtomicity ==
    localStorage.access_token = localStorage.refresh_token

\* The store holds the pair written by a successful renewal.
C11_Witness ==
    /\ defaultsAuth # Absent
    /\ localStorage.access_token = defaultsAuth
    /\ localStorage.refresh_token = defaultsAuth

\* C12: the renewal call carries the refresh token stored when the driver
\* starts it, and a successful renewal leaves the store holding exactly the
\* access/refresh pair of its response, the scope id (and user) unchanged.
C12_RenewalSwapsPair ==
    [][/\ \A m \in inflight : onUnauthorizedRefresh(m) =>
            /\ Cardinality(refreshCalls' \ refreshCalls) = 1
            /\ \A call \in refreshCalls' \ refreshCalls :
                  call.refresh_token = localStorage.refresh_token
       /\ \A call \in refreshCalls : refreshSucceeds(call) =>
            /\ localStorage'.access_token = nextToken'
            /\ localStorage'.refresh_token = nextToken'
            /\ nextToken' # call.refresh_token
            /\ localStorage'.current_company_id = localStorage.current_company_id
            /\ localStorage'.user = localStorage.user]_vars

\* Store {A1, R1}, renewal sent with R1, answered {A2, R2}: the store holds {A2, R2}.
C12_Witness ==
    /\ nLogin = 0
    /\ \E i \in DOMAIN refreshLog : refreshLog[i].refresh_token = 1
    /\ localStorage = Session(2, 7)

\* The trace id of the replay this step dispatches for caller c; trace ids
\* are drawn in dispatch order.
ReplayId(c) == (CHOOSE m \in inflight' \ inflight : m.caller = c).XRequestID

\* The queued waiters are re-dispatched in enqueue order.
WaitersInOrder ==
    \A i, j \in DOMAIN pendingRequests :
        i < j => ReplayId(pendingRequests[i].caller) < ReplayId(pendingRequests[j].caller)

\* C13 (as stated): FIFO resumption - on renewal success the driver, which
\* entered the coordinator first, is re-dispatched before every waiter, and
\* the waiters are re-dispatched in enqueue order.
C13_DriverThenWaiters ==
    [][\A call \in refreshCalls : refreshSucceeds(call) =>
          /\ WaitersInOrder
          /\ \A i \in DOMAIN pendingRequests :
                ReplayId(call.caller) < ReplayId(pendingRequests[i].caller)]_vars

\* C13 (amended): on renewal success the queued waiters are re-dispatched in
\* enqueue order and the driver is re-dispatched after all of them.
C13_WaitersThenDriver ==
    [][\A call \in refreshCalls : refreshSucceeds(call) =>
          /\ WaitersInOrder
          /\ \A i \in DOMAIN pendingRequests :
                ReplayId(pendingRequests[i].caller) < ReplayId(call.caller)]_vars

\* A renewal has just succeeded with two waiters queued: three replays are in
\* flight, the driver's carrying the latest trace id.
C13_Witness ==
    \E d, v, w \in inflight :
        /\ config[d.cfg].retry /\ ~config[v.cfg].retry /\ ~config[w.cfg].retry
        /\ config[d.cfg].sent = 2 /\ config[v.cfg].sent = 2 /\ config[w.cfg].sent = 2
        /\ v.XRequestID < w.XRequestID
        /\ w.XRequestID < d.XRequestID
        /\ d.XRequestID = nextUUID - 1

\* What the configured timeouts guarantee: a request sent through `api`
\* (timeout: 30000) is answered or fails as a network error; the renewal call
\* goes through the bare axios import, which has no timeout, so nothing
\* forces it to complete.
TimeoutSpec ==
    /\ Spec
    /\ \A r \in Req : WF_vars(Answered(r))

\* C14: the renewal call is bounded in time - whenever a renewal is in
\* flight the coordinator eventually leaves the Refreshing state, even if
\* the refresh endpoint never answers.
C14_RenewalBounded ==
    isRefreshing ~> ~isRefreshing

\* The step leaves the coordinator and the store as they are, issues no
\* renewal call and dispatches nothing.
CoordinatorUntouched ==
    /\ isRefreshing' = isRefreshing
    /\ pendingRequests' = pendingRequests
    /\ localStorage' = localStorage
    /\ refreshCalls' = refreshCalls
    /\ refreshLog' = refreshLog
    /\ inflight' \subseteq inflight
    /\ config' = config
    /\ nextUUID' = nextUUID

\* C15: idle fast path - handling a 2xx response resolves the caller and
\* leaves isRefreshing, pendingRequests and the store unchanged, issues no
\* renewal call and does not re-dispatch the request.
C15_SuccessLeavesCoordinator ==
    [][\A m \in inflight :
          (\E hasMessage \in BOOLEAN : onFulfilled(m, hasMessage)) =>
              /\ CoordinatorUntouched
              /\ result'[m.caller].kind = "resolved"]_vars

\* A first dispatch was answered 2xx while a renewal was in flight.
C15_Witness ==
    /\ isRefreshing
    /\ \E r \in Req : result[r].kind = "resolved" /\ config[r].sent = 1

\* C16: every request handed to the transport, first dispatch or replay,
\* carries as Authorization exactly the access token the store holds when
\* it is dispatched, and no Authorization header when the store holds none.
C16_BearerIffStored ==
    [][\A m \in inflight' \ inflight :
          m.Authorization = localStorage'.access_token]_vars

\* C17: every dispatch attempt carries a trace id, and the trace id of each
\* attempt, replays included, differs from that of every earlier attempt.
C17_FreshTraceIds ==
    /\ \A i, j \in DOMAIN traceLog : i # j => traceLog[i] # traceLog[j]
    /\ \A i \in DOMAIN traceLog : traceLog[i] # Absent
    /\ \A m \in inflight : \E i \in DOMAIN traceLog : traceLog[i] = m.XRequestID
    /\ \A r \in Req : config[r].sent > 0 => Len(traceLog) >= config[r].sent

\* A request has been dispatched and replayed, each attempt with its own id.
C17_Witness ==
    /\ Len(traceLog) >= 3
    /\ \E m \in inflight : config[m.cfg].sent = 2 /\ m.XRequestID = traceLog[Len(traceLog)]

\* C18: a replay is sent with the same path (method and body travel with
\* it in the config) and the same scope id as the previous attempt of its
\* request, whatever happened to the active scope id in the store meanwhile.
C18_ReplayKeepsDescriptor ==
    [][\A call \in refreshCalls : refreshSucceeds(call) =>
          \A m \in inflight' \ inflight :
             /\ m.url = config[m.cfg].url
             /\ m.XCompanyId = config[m.cfg].XCompanyId]_vars

NoErrorToast(ts) == \A i \in DOMAIN ts : ts[i].level # "error"

\* C19: transparent renewal - the 401 of a not yet retried request (with a
\* refresh token stored) raises no notification and leaves the caller
\* unsettled; the renewal's success raises none either and re-dispatches the
\* driver; and a 2xx answer resolves the caller with the response of its own
\* request without any error notification.
C19_TransparentRenewal ==
    [][/\ \A m \in inflight :
            (/\ Handled401(m)
             /\ ~config[m.cfg].retry
             /\ localStorage.refresh_token # Absent) =>
                 /\ toasts' = <<>>
                 /\ result' = result
                 /\ ~redirected' \/ redirected
       /\ \A call \in refreshCalls : refreshSucceeds(call) =>
            /\ toasts' = <<>>
            /\ result' = result
            /\ \E m \in inflight' \ inflight : m.caller = call.caller
       /\ \A m \in inflight :
            (\E hasMessage \in BOOLEAN : onFulfilled(m, hasMessage)) =>
                 /\ result'[m.caller] =
                       [kind |-> "resolved", cfg |-> m.caller, status |-> 200, error |-> ""]
                 /\ NoErrorToast(toasts')]_vars

\* A driver's replay after a successful renewal was answered 2xx.
C19_Witness ==
    \E r \in Req : /\ config[r].retry
                   /\ config[r].sent = 2
                   /\ result[r].kind = "resolved"
                   /\ NoErrorToast(toasts)

\* C20: an error response with a status other than 401 rejects the caller
\* in the same step with that status, re-dispatches nothing, starts no
\* renewal and leaves isRefreshing, pendingRequests and the store unchanged,
\* whatever the coordinator's state and the request's retried flag.
C20_OtherErrorsSurfaced ==
    [][\A m \in inflight, status \in ErrorStatuses \ {401}, detail \in Details :
          onErrorStatus(m, status, detail) =>
              /\ CoordinatorUntouched
              /\ redirected' = redirected
              /\ defaultsAuth' = defaultsAuth
              /\ result'[m.caller] =
                    [kind |-> "rejected", cfg |-> m.caller, status |-> status,
                     error |-> "response"]]_vars

\* The replay of a retried request was rejected with 422 while a later
\* renewal was in flight.
C20_Witness ==
    /\ isRefreshing
    /\ \E r \in Req : /\ config[r].retry
                      /\ result[r].kind = "rejected"
                      /\ result[r].status = 422

\* ----------------------------------------------------------- status table
\* One request answered with any error status other than 401 and any shape
\* of data.detail: the switch over the status, applied to every input.
StatusNext ==
    \/ \E r \in {1} : Dispatch(r)
    \/ \E m \in inflight, status \in HttpErrorStatuses \ {401}, detail \in Details :
           onErrorStatus(m, status, detail)

StatusSpec == BurstInit /\ [][StatusNext]_vars

\* The case labels of the switch, by the kind of failure each one reports.
TableStatuses == {400, 403, 404, 422, 429, 500, 502, 503, 504}

ErrorKind(status) ==
    CASE status = 400 -> "BadRequest"
      [] status = 403 -> "Forbidden"
      [] status = 404 -> "NotFound"
      [] status = 422 -> "Validation"
      [] status = 429 -> "RateLimited"
      [] status = 500 -> "ServerError"
      [] status \in {502, 503, 504} -> "ServiceUnavailable"
      [] OTHER -> "Generic"

GenericMessage == "An error occurred"

\* ts is a report of the kind of status: at least one error notification,
\* exactly one unless the kind is Validation, none of them the generic one.
OwnKindReport(status, ts) ==
    /\ Len(ts) >= 1
    /\ status # 422 => Len(ts) = 1
    /\ \A i \in DOMAIN ts : ts[i].level = "error" /\ ts[i].msg # GenericMessage

\* C21: the classification follows the status table - two statuses of the
\* table are reported alike exactly when they are of the same kind, every
\* status of the table yields a report of its own kind, and every other
\* error status except 401 yields exactly one generic report, not none.
C21_ClassificationTotal ==
    [][\A m \in inflight, status \in HttpErrorStatuses \ {401}, detail \in Details :
          onErrorStatus(m, status, detail) =>
              /\ \A other \in TableStatuses \ {422} :
                    status \in TableStatuses \ {422} =>
                        ((ErrorKind(other) = ErrorKind(status))
                            <=> (ErrorToasts(other, NoDetail) = ErrorToasts(status, NoDetail)))
              /\ status \in TableStatuses => OwnKindReport(status, toasts')
              /\ status \notin TableStatuses =>
                    toasts' = <<DetailOr(detail, GenericMessage)>>]_vars

\* C22: every 422 answer is reported as a validation failure - one
\* notification per field error, in order, when data.detail is a list, one
\* notification when it is a plain message, never none and never the
\* generic message.
C22_ValidationReported ==
    [][\A m \in inflight, detail \in Details :
          onErrorStatus(m, 422, detail) =>
              /\ Len(toasts') >= 1
              /\ detail.isList =>
                    toasts' = [i \in 1..Len(detail.items) |->
                                  Toast("error", FieldMessage(detail.items[i]))]
              /\ ~detail.isList => Len(toasts') = 1
              /\ \A i \in DOMAIN toasts' : toasts'[i].msg # GenericMessage]_vars

\* -------------------------------------------------------- network errors
NetworkToast == <<Toast("error", "Network error. Please check your connection.")>>

\* C23: an attempt that receives no response is rejected to its caller as a
\* network failure with exactly one connectivity notification; the step
\* starts no renewal, queues nothing, re-dispatches nothing and leaves the
\* store, isRefreshing and the redirect as they are, whatever the state of
\* the coordinator and the request's retried flag.
C23_NetworkErrorSurfaced ==
    [][\A m \in inflight : onNetworkError(m) =>
          /\ CoordinatorUntouched
          /\ redirected' = redirected
          /\ defaultsAuth' = defaultsAuth
          /\ toasts' = NetworkToast
          /\ result'[m.caller] =
                [kind |-> "rejected", cfg |-> m.caller, status |-> 0,
                 error |-> "network"]]_vars

\* The replay of a retried request got no response while a later renewal
\* was in flight.
C23_Witness ==
    /\ isRefreshing
    /\ toasts = NetworkToast
    /\ \E r \in Req : /\ config[r].retry
                      /\ config[r].sent = 2
                      /\ result[r].kind = "rejected"
                      /\ result[r].error = "network"

\* ----------------------------------------------------------- retried flag
\* C24: the retried flag marks the replays - every attempt dispatched by a
\* renewal's success, the driver's and each queued waiter's, carries
\* retried = true, and an attempt in flight for the first time carries
\* retried = false.
C24_RetriedOnReplay ==
    [][/\ \A call \in refreshCalls : refreshSucceeds(call) =>
             \A m \in inflight' \ inflight : config'[m.cfg].retry
       /\ \A m \in inflight' : config'[m.cfg].sent = 1 => ~config'[m.cfg].retry]_vars

\* --------------------------------------------------- failed renewal, driver
RenewalErrors == {"refresh response", "refresh network", "No refresh token"}

\* C25: when a renewal fails the driver's own request is not re-dispatched;
\* its caller is rejected with the failure of the renewal (the refresh
\* endpoint's answer, the missing response, or the missing refresh token),
\* not with its own 401 response, and the session-expired notification is
\* raised exactly once.
C25_DriverRejectedWithRenewalFailure ==
    [][/\ \A call \in refreshCalls, status \in RefreshErrorStatuses \cup {0} :
             refreshFails(call, status) =>
                 /\ inflight' = inflight
                 /\ config' = config
                 /\ traceLog' = traceLog
                 /\ result'[call.caller].kind = "rejected"
                 /\ result'[call.caller].status = status
                 /\ result'[call.caller].error \in RenewalErrors
                 /\ toasts' = SessionExpiredToast
       /\ \A m \in inflight : onUnauthorizedNoToken(m) =>
                 /\ inflight' = inflight \ {m}
                 /\ config'[m.cfg].sent = config[m.cfg].sent
                 /\ traceLog' = traceLog
                 /\ result'[m.caller].kind = "rejected"
                 /\ result'[m.caller].error \in RenewalErrors
                 /\ toasts' = SessionExpiredToast]_vars

\* The refresh endpoint did not respond: the driver, dispatched once, was
\* rejected with that failure and the notification raised.
C25_Witness ==
    /\ toasts = SessionExpiredToast
    /\ \E r \in Req : /\ config[r].sent = 1
                      /\ config[r].url \in DataUrls
                      /\ result[r].kind = "rejected"
                      /\ result[r].error = "refresh network"

\* ------------------------------------------------------------ queue entries
\* The callers whose continuation is in the queue.
Queued == {pendingRequests[i].caller : i \in DOMAIN pendingRequests}

\* C26: a request is in pendingRequests at most once at any time, the driver
\* of the renewal in flight is never in pendingRequests, and a renewal's
\* success re-dispatches each queued request exactly once and leaves the
\* queue empty.
C26_WaiterInvokedOnce ==
    [][/\ Cardinality(Queued') = Len(pendingRequests')
       /\ \A call \in refreshCalls' : call.caller \notin Queued'
       /\ \A call \in refreshCalls : refreshSucceeds(call) =>
             /\ pendingRequests' = <<>>
             /\ \A c \in Queued :
                   /\ Cardinality({m \in inflight' \ inflight : m.caller = c}) = 1
                   /\ config'[c].sent = config[c].sent + 1]_vars

\* A renewal succeeded with two requests in the queue: both replays and the
\* driver's are in flight and the queue is empty.
C26_Witness ==
    /\ pendingRequests = <<>>
    /\ ~isRefreshing
    /\ Cardinality(inflight) = 3
    /\ \A m \in inflight : config[m.cfg].sent = 2

\* C27: whenever isRefreshing is false pendingRequests is empty, so that no
\* renewal finds in the queue a request left there by an earlier renewal.
C27_QueueEmptyWhenIdle == ~isRefreshing => pendingRequests = <<>>

\* ------------------------------------------------------ renewal completion
\* A renewal attempt completes: the call is answered, or no refresh token
\* was found.
RenewalCompletes ==
    \/ RenewalFails
    \/ \E call \in refreshCalls : refreshSucceeds(call)

\* C28: every renewal attempt that completes - by success, by a failed
\* renewal call or by finding no refresh token - leaves isRefreshing false,
\* and isRefreshing is never true without a renewal call outstanding.
C28_CompletionLeavesIdle ==
    [][/\ RenewalCompletes => ~isRefreshing'
       /\ isRefreshing' => refreshCalls' # {}]_vars

\* After a renewal failed, a later 401 found the coordinator idle and
\* failed fast on the missing refresh token.
C28_Witness ==
    /\ ~isRefreshing
    /\ \E r1, r2 \in Req : /\ result[r1].error = "refresh response"
                           /\ result[r2].error = "No refresh token"

\* ------------------------------------------------------- failure of a replay
\* The answer to attempt m is a failure and is handled in this step.
FailureHandled(m) ==
    \/ onNetworkError(m)
    \/ Handled401(m)
    \/ \E status \in ErrorStatuses, detail \in Details : onErrorStatus(m, status, detail)

\* The session is left as it is: the store unchanged, no redirect to /login
\* and no session-expired notification.
SessionKept ==
    /\ localStorage' = localStorage
    /\ redirected' = redirected
    /\ toasts' # SessionExpiredToast

\* C29: the failure of an attempt re-dispatched by a successful renewal, the
\* driver's or a waiter's, with any error status or with no response, does
\* not tear the session down - neither the step that handles the failure
\* nor the continuation of that handler after its renewal call clears the
\* store, redirects to /login or raises the session-expired notification.
C29_ReplayFailureKeepsSession ==
    [][/\ \A m \in inflight :
             (config[m.cfg].sent >= 2 /\ FailureHandled(m)) => SessionKept
       /\ \A call \in refreshCalls :
             (config[call.cfg].sent >= 2 /\ RenewalCallFails(call)) => SessionKept]_vars

\* ------------------------------------------------- renewal call and pipeline
\* C30: the renewal call does not pass through the pipeline - issuing it
\* puts no attempt in flight and draws no request id, and a 401 or any
\* other failure answered to it is handled as the renewal's failure only:
\* the driver is rejected with it, the store is cleared, isRefreshing is
\* reset, nothing is queued and no further renewal call is issued.
C30_RenewalBypassesPipeline ==
    [][/\ \A m \in inflight : onUnauthorizedRefresh(m) =>
             /\ inflight' = inflight \ {m}
             /\ nextUUID' = nextUUID
             /\ traceLog' = traceLog
       /\ \A call \in refreshCalls, status \in RefreshErrorStatuses \cup {0} :
             refreshFails(call, status) =>
                 /\ pendingRequests' = pendingRequests
                 /\ refreshCalls' = refreshCalls \ {call}
                 /\ refreshLog' = refreshLog
                 /\ n401' = n401
                 /\ ~isRefreshing'
                 /\ StoreEmpty(localStorage')
                 /\ redirected'
                 /\ result'[call.caller] = RefreshRejection(call, status)]_vars

\* The refresh endpoint answered 401: the driver was rejected with that
\* answer and the coordinator is idle with no renewal call outstanding.
C30_Witness ==
    /\ ~isRefreshing
    /\ refreshCalls = {}
    /\ \E r \in Req : /\ result[r].kind = "rejected"
                      /\ result[r].status = 401
                      /\ result[r].error = "refresh response"

====
